---- MODULE Spec2Model ----
(***************************************************************************)
(* Tic-Tac-Toe in three variants:                                          *)
(*   Part A  YC_Project2_PartA.py  human X against human O                 *)
(*   Part B  YC_Project2_PartB.py  human X against minimax O               *)
(*   Part C  YC_Project2_PartC.py  human X against a learned predictor O   *)
(*                                                                         *)
(* A board is the list of lists Board.c: board[r][c] for r, c in 0..2,     *)
(* each cell one of "X", "O", " ".  Spec runs playGame sessions of the     *)
(* three programs; SpecFn calls single methods of a Game object whose      *)
(* board is any of the 3^9 boards.                                         *)
(***************************************************************************)
EXTENDS Integers, Sequences, FiniteSets, TLC

VARIABLES
    variant,    \* which program runs: "A", "B" or "C"
    board,      \* Game.board.c
    turn,       \* Game.turn
    pc,         \* position of the program in main / playGame
    result,     \* what checkEnd has announced: "none", "X", "O" or "draw"
    ev          \* the last operation performed and its inputs and outputs

vars == <<variant, board, turn, pc, result, ev>>

(***************************************************************************)
(* Bounds of the model.                                                    *)
(***************************************************************************)
\* row and column numbers typed by a player range over 0..MaxCoord
MaxCoord == 3
\* minimax and computer_move are called directly on boards with at most
\* MaxEmpty Empty cells (and computer_move on the empty board as well)
MaxEmpty == 4

(***************************************************************************)
(* Board                                                                   *)
(***************************************************************************)
Mark == {"X", "O", " "}
Player == {"X", "O"}

\* Board.__init__
Board == [r \in 0..2 |-> [c \in 0..2 |-> " "]]

AllBoards == [0..2 -> [0..2 -> Mark]]

\* the cell divmod(k, 3) of the row-major scan "for r in range(3): for c in range(3)"
RowOf(k) == k \div 3
ColOf(k) == k % 3

\* number of cells of b holding mark m
Count(b, m) == Cardinality({k \in 0..8 : b[RowOf(k)][ColOf(k)] = m})

\* the value None of a winner, and of a move that was not chosen
None == "None"
NoMove == <<>>

(***************************************************************************)
(* Game: the rules shared by the three programs                            *)
(***************************************************************************)
\* a switchPlayer that never gives the turn back to X
switchPlayer_stuck_on_O(t) == IF t = "X" THEN "O" ELSE "O"

\* Game.switchPlayer
switchPlayer(t) == IF t = "X" THEN "O" ELSE "X"

\* a validateEntry that accepts an occupied cell
validateEntry_no_occupancy(b, row, col) ==
    IF ~(0 <= row /\ row <= 2 /\ 0 <= col /\ col <= 2) THEN FALSE ELSE TRUE

\* Game.validateEntry: the range test comes first, the cell is read after it
validateEntry(b, row, col) ==
    IF ~(0 <= row /\ row <= 2 /\ 0 <= col /\ col <= 2) THEN FALSE
    ELSE IF b[row][col] # " " THEN FALSE
    ELSE TRUE

\* Game.checkFull
checkFull(b) == \A r \in 0..2 : \A c \in 0..2 : b[r][c] # " "

\* a checkWin that forgets the second diagonal
checkWin_one_diagonal(b, t) ==
    \/ \E r \in 0..2 : b[r][0] = b[r][1] /\ b[r][1] = b[r][2] /\ b[r][2] = t
    \/ \E c \in 0..2 : b[0][c] = b[1][c] /\ b[1][c] = b[2][c] /\ b[2][c] = t
    \/ b[0][0] = b[1][1] /\ b[1][1] = b[2][2] /\ b[2][2] = t

\* Game.checkWin of Parts A and B, with t = self.turn
checkWin(b, t) ==
    \/ \E r \in 0..2 : b[r][0] = b[r][1] /\ b[r][1] = b[r][2] /\ b[r][2] = t
    \/ \E c \in 0..2 : b[0][c] = b[1][c] /\ b[1][c] = b[2][c] /\ b[2][c] = t
    \/ b[0][0] = b[1][1] /\ b[1][1] = b[2][2] /\ b[2][2] = t
    \/ b[0][2] = b[1][1] /\ b[1][1] = b[2][0] /\ b[2][0] = t

\* a checkEnd that tests the full board before the win
checkEnd_full_first(b, t) ==
    IF checkFull(b) THEN "draw"
    ELSE IF checkWin(b, t) THEN t
    ELSE "none"

\* Game.checkEnd of Parts A and B: the outcome it announces, "none" when it
\* returns False
checkEnd(b, t) ==
    IF checkWin(b, t) THEN t
    ELSE IF checkFull(b) THEN "draw"
    ELSE "none"

\* Game.checkWin_for_turn of Part C
checkWin_for_turn(b, t) ==
    \/ \E r \in 0..2 : b[r][0] = b[r][1] /\ b[r][1] = b[r][2] /\ b[r][2] = t
    \/ \E c \in 0..2 : b[0][c] = b[1][c] /\ b[1][c] = b[2][c] /\ b[2][c] = t
    \/ b[0][0] = b[1][1] /\ b[1][1] = b[2][2] /\ b[2][2] = t
    \/ b[0][2] = b[1][1] /\ b[1][1] = b[2][0] /\ b[2][0] = t

\* Game.checkEnd of Part C: X is tested first, then O, then the full board
checkEnd_C(b) ==
    IF checkWin_for_turn(b, "X") THEN "X"
    ELSE IF checkWin_for_turn(b, "O") THEN "O"
    ELSE IF checkFull(b) THEN "draw"
    ELSE "none"

(***************************************************************************)
(* Part B: minimax                                                         *)
(***************************************************************************)
\* Game.check_winner_static: rows 0, 1, 2, then columns 0, 1, 2, then the two
\* diagonals; the first complete line found decides
check_winner_static(b) ==
    IF b[0][0] = b[0][1] /\ b[0][1] = b[0][2] /\ b[0][0] # " " THEN b[0][0]
    ELSE IF b[1][0] = b[1][1] /\ b[1][1] = b[1][2] /\ b[1][0] # " " THEN b[1][0]
    ELSE IF b[2][0] = b[2][1] /\ b[2][1] = b[2][2] /\ b[2][0] # " " THEN b[2][0]
    ELSE IF b[0][0] = b[1][0] /\ b[1][0] = b[2][0] /\ b[0][0] # " " THEN b[0][0]
    ELSE IF b[0][1] = b[1][1] /\ b[1][1] = b[2][1] /\ b[0][1] # " " THEN b[0][1]
    ELSE IF b[0][2] = b[1][2] /\ b[1][2] = b[2][2] /\ b[0][2] # " " THEN b[0][2]
    ELSE IF b[0][0] = b[1][1] /\ b[1][1] = b[2][2] /\ b[0][0] # " " THEN b[0][0]
    ELSE IF b[0][2] = b[1][1] /\ b[1][1] = b[2][0] /\ b[0][2] # " " THEN b[0][2]
    ELSE None

\* minimax works on the caller's list in place: it writes a mark, recurses and
\* writes " " back.  The model threads the list through every call, so each
\* operator returns the list as the call leaves it next to the score.  It
\* returns as well the depth of the recursion below the call: 0 for a call
\* that returns without recursing, and one more than the deepest recursive
\* call otherwise.
RECURSIVE minimax(_, _)

\* A double loop "for r in range(3): for c in range(3):" visits the nine cells
\* in row-major order.  Its body at cell k is an operator of the state s that
\* the pass before left (the list and the loop's locals) and of k, and the
\* loop applies the nine passes one after the other.

\* a maximizing pass that does not write " " back after the recursive call
minimax_maximizing_no_undo(s, k) ==
    LET r == RowOf(k)
        c == ColOf(k)
    IN IF s.board[r][c] = " "
       THEN LET sub == minimax([s.board EXCEPT ![r][c] = "O"], FALSE)
            IN [board |-> sub.board,
                score |-> IF sub.score > s.score THEN sub.score ELSE s.score,
                depth |-> IF sub.depth + 1 > s.depth THEN sub.depth + 1 ELSE s.depth]
       ELSE s

\* a maximizing pass that writes O on cell (c, r) and " " back on cell (r, c)
minimax_maximizing_transposed(s, k) ==
    LET r == RowOf(k)
        c == ColOf(k)
    IN IF s.board[r][c] = " "
       THEN LET sub == minimax([s.board EXCEPT ![c][r] = "O"], FALSE)
            IN [board |-> [sub.board EXCEPT ![r][c] = " "],
                score |-> IF sub.score > s.score THEN sub.score ELSE s.score,
                depth |-> IF sub.depth + 1 > s.depth THEN sub.depth + 1 ELSE s.depth]
       ELSE s

\* Game.minimax, the loop body of the is_maximizing branch at cell k; s.score
\* is best_score, s.board the list, s.depth the deepest recursion so far
minimax_maximizing(s, k) ==
    LET r == RowOf(k)
        c == ColOf(k)
    IN IF s.board[r][c] = " "
       THEN LET sub == minimax([s.board EXCEPT ![r][c] = "O"], FALSE)
            IN [board |-> [sub.board EXCEPT ![r][c] = " "],
                score |-> IF sub.score > s.score THEN sub.score ELSE s.score,
                depth |-> IF sub.depth + 1 > s.depth THEN sub.depth + 1 ELSE s.depth]
       ELSE s

\* a minimizing pass that compares as the maximizing pass does
minimax_minimizing_greater(s, k) ==
    LET r == RowOf(k)
        c == ColOf(k)
    IN IF s.board[r][c] = " "
       THEN LET sub == minimax([s.board EXCEPT ![r][c] = "X"], TRUE)
            IN [board |-> [sub.board EXCEPT ![r][c] = " "],
                score |-> IF sub.score > s.score THEN sub.score ELSE s.score,
                depth |-> IF sub.depth + 1 > s.depth THEN sub.depth + 1 ELSE s.depth]
       ELSE s

\* Game.minimax, the loop body of the minimizing branch at cell k
minimax_minimizing(s, k) ==
    LET r == RowOf(k)
        c == ColOf(k)
    IN IF s.board[r][c] = " "
       THEN LET sub == minimax([s.board EXCEPT ![r][c] = "X"], TRUE)
            IN [board |-> [sub.board EXCEPT ![r][c] = " "],
                score |-> IF sub.score < s.score THEN sub.score ELSE s.score,
                depth |-> IF sub.depth + 1 > s.depth THEN sub.depth + 1 ELSE s.depth]
       ELSE s

\* Game.minimax, the double loop of the is_maximizing branch
minimax_maximizing_loop(s) ==
    CHOOSE s9 \in
        {minimax_maximizing(s8, 8) : s8 \in
        {minimax_maximizing(s7, 7) : s7 \in
        {minimax_maximizing(s6, 6) : s6 \in
        {minimax_maximizing(s5, 5) : s5 \in
        {minimax_maximizing(s4, 4) : s4 \in
        {minimax_maximizing(s3, 3) : s3 \in
        {minimax_maximizing(s2, 2) : s2 \in
        {minimax_maximizing(s1, 1) : s1 \in
        {minimax_maximizing(s0, 0) : s0 \in {s}}}}}}}}}} : TRUE

\* Game.minimax, the double loop of the minimizing branch
minimax_minimizing_loop(s) ==
    CHOOSE s9 \in
        {minimax_minimizing(s8, 8) : s8 \in
        {minimax_minimizing(s7, 7) : s7 \in
        {minimax_minimizing(s6, 6) : s6 \in
        {minimax_minimizing(s5, 5) : s5 \in
        {minimax_minimizing(s4, 4) : s4 \in
        {minimax_minimizing(s3, 3) : s3 \in
        {minimax_minimizing(s2, 2) : s2 \in
        {minimax_minimizing(s1, 1) : s1 \in
        {minimax_minimizing(s0, 0) : s0 \in {s}}}}}}}}}} : TRUE

\* Game.minimax
minimax(b, is_maximizing) ==
    LET winner == check_winner_static(b)
    IN CASE winner = "O" -> [score |-> 1, board |-> b, depth |-> 0]
         [] winner = "X" -> [score |-> -1, board |-> b, depth |-> 0]
         [] /\ winner \notin {"O", "X"}
            /\ \A r \in 0..2 : \A c \in 0..2 : b[r][c] # " "
                -> [score |-> 0, board |-> b, depth |-> 0]
         [] OTHER ->
            IF is_maximizing
            THEN minimax_maximizing_loop([score |-> -999, board |-> b, depth |-> 0])
            ELSE minimax_minimizing_loop([score |-> 999, board |-> b, depth |-> 0])

\* a pass that lets a later cell with an equal score replace the earlier one
computer_move_scan_last_best(s, k) ==
    LET r == RowOf(k)
        c == ColOf(k)
    IN IF s.board[r][c] = " "
       THEN LET sub == minimax([s.board EXCEPT ![r][c] = "O"], FALSE)
            IN [board |-> [sub.board EXCEPT ![r][c] = " "],
                best_score |-> IF sub.score >= s.best_score THEN sub.score ELSE s.best_score,
                best_move |-> IF sub.score >= s.best_score THEN <<r, c>> ELSE s.best_move]
       ELSE s

\* a pass that takes the first Empty cell and evaluates nothing
computer_move_scan_first_empty(s, k) ==
    IF s.best_move = NoMove /\ s.board[RowOf(k)][ColOf(k)] = " "
    THEN [s EXCEPT !.best_move = <<RowOf(k), ColOf(k)>>]
    ELSE s

\* Game.computer_move, the body of the loop "evaluate all possible moves" at
\* cell k
computer_move_scan(s, k) ==
    LET r == RowOf(k)
        c == ColOf(k)
    IN IF s.board[r][c] = " "
       THEN LET sub == minimax([s.board EXCEPT ![r][c] = "O"], FALSE)
            IN [board |-> [sub.board EXCEPT ![r][c] = " "],
                best_score |-> IF sub.score > s.best_score THEN sub.score ELSE s.best_score,
                best_move |-> IF sub.score > s.best_score THEN <<r, c>> ELSE s.best_move]
       ELSE s

\* Game.computer_move, the double loop "evaluate all possible moves"
computer_move_loop(s) ==
    CHOOSE s9 \in
        {computer_move_scan(s8, 8) : s8 \in
        {computer_move_scan(s7, 7) : s7 \in
        {computer_move_scan(s6, 6) : s6 \in
        {computer_move_scan(s5, 5) : s5 \in
        {computer_move_scan(s4, 4) : s4 \in
        {computer_move_scan(s3, 3) : s3 \in
        {computer_move_scan(s2, 2) : s2 \in
        {computer_move_scan(s1, 1) : s1 \in
        {computer_move_scan(s0, 0) : s0 \in {s}}}}}}}}}} : TRUE

\* a computer_move whose best_move starts as (0, 0) and not as None
computer_move_default_cell(b) ==
    LET scan == computer_move_loop([board |-> b, best_score |-> -999, best_move |-> <<0, 0>>])
    IN IF scan.best_move # NoMove
       THEN [board |-> [scan.board EXCEPT ![scan.best_move[1]][scan.best_move[2]] = "O"],
             best_move |-> scan.best_move]
       ELSE [board |-> scan.board, best_move |-> NoMove]

\* Game.computer_move: the board it leaves and the move it chose (NoMove when
\* best_move is None and "Computer has no moves!" is printed)
computer_move(b) ==
    LET scan == computer_move_loop([board |-> b, best_score |-> -999, best_move |-> NoMove])
    IN IF scan.best_move # NoMove
       THEN [board |-> [scan.board EXCEPT ![scan.best_move[1]][scan.best_move[2]] = "O"],
             best_move |-> scan.best_move]
       ELSE [board |-> scan.board, best_move |-> NoMove]

(***************************************************************************)
(* Part C: the learned strategy                                            *)
(***************************************************************************)
\* the longest predictor ranking the model draws
MaxRanked == 2

\* the dictionary mapping of board_to_model_features
mapping == [m \in Mark |-> IF m = "X" THEN 1 ELSE IF m = "O" THEN -1 ELSE 0]

\* a feature vector that does not tell O from X
board_to_model_features_O_as_X(b) ==
    [i \in 1..9 |-> IF b[RowOf(i - 1)][ColOf(i - 1)] = " " THEN 0 ELSE 1]

\* Game.board_to_model_features: the list of the nine mapped cells, "for r in
\* range(3) for c in range(3)"; element i of the sequence is list index i - 1
board_to_model_features(b) ==
    [i \in 1..9 |-> mapping[b[RowOf(i - 1)][ColOf(i - 1)]]]

\* Game.get_available_moves: the Empty cells in row-major order
get_available_moves(b) ==
    LET RECURSIVE from(_)
        from(k) == IF k = 9 THEN <<>>
                   ELSE IF b[RowOf(k)][ColOf(k)] = " "
                        THEN <<(<<RowOf(k), ColOf(k)>>)>> \o from(k + 1)
                        ELSE from(k + 1)
    IN from(0)

\* what sorted(zip(classes, probs), ...) can be: the class labels of the
\* predictor, each a cell index 0..8, in any order
Rankings ==
    UNION {{q \in [1..n -> 0..8] : \A i, j \in 1..n : i # j => q[i] # q[j]} : n \in 0..MaxRanked}

\* the loop without its test of the cell: the first ranked index, Empty or not
model_move_ranked_no_test(b, ranked, i) ==
    IF i > Len(ranked) THEN NoMove
    ELSE <<ranked[i] \div 3, ranked[i] % 3>>

RECURSIVE model_move_ranked(_, _, _)
\* Game.model_move, the loop over the ranking from position i on; NoMove when
\* no ranked index names an Empty cell
model_move_ranked(b, ranked, i) ==
    IF i > Len(ranked) THEN NoMove
    ELSE LET r == ranked[i] \div 3
             c == ranked[i] % 3
         IN IF b[r][c] = " " THEN <<r, c>> ELSE model_move_ranked(b, ranked, i + 1)

\* Game.model_move: ranked is the predictor's ranking and choice the cell
\* random.choice(moves) returns; the board it leaves, the cell it wrote and
\* whether it fell back
model_move(b, ranked, choice) ==
    LET moves == get_available_moves(b)
        hit == model_move_ranked(b, ranked, 1)
    IN IF moves = <<>> THEN [board |-> b, move |-> NoMove, fallback |-> FALSE]
       ELSE IF hit # NoMove
            THEN [board |-> [b EXCEPT ![hit[1]][hit[2]] = "O"], move |-> hit, fallback |-> FALSE]
       ELSE [board |-> [b EXCEPT ![choice[1]][choice[2]] = "O"], move |-> choice, fallback |-> TRUE]

\* the cells random.choice(moves) can return
RandomChoices(b) ==
    LET moves == get_available_moves(b)
    IN IF moves = <<>> THEN {NoMove} ELSE {moves[i] : i \in 1..Len(moves)}

(***************************************************************************)
(* Sessions: main and playGame                                             *)
(***************************************************************************)
Init ==
    /\ variant \in {"A", "B", "C"}
    /\ board = Board
    /\ turn = "X"
    /\ pc = "main"
    /\ result = "none"
    /\ ev = [op |-> "init"]

\* a playGame that gives the first move to O
playGame_start_O_first ==
    /\ pc = "main"
    /\ board' = Board
    /\ turn' = "O"
    /\ pc' = "input"
    /\ ev' = [op |-> "start"]
    /\ UNCHANGED <<variant, result>>

\* playGame, up to the first prompt: a clean board, X to move
playGame_start ==
    /\ pc = "main"
    /\ board' = Board
    /\ turn' = "X"
    /\ pc' = "input"
    /\ ev' = [op |-> "start"]
    /\ UNCHANGED <<variant, result>>

\* playGame and get_move_from_user: a line that does not parse to two numbers
\* is answered by a message and a new prompt
MalformedEntry ==
    /\ pc = "input"
    /\ pc' = "rejected"
    /\ ev' = [op |-> "malformed"]
    /\ UNCHANGED <<variant, board, turn, result>>

\* the prompt printed again after a rejected line, before the next input()
Reprompt ==
    /\ pc = "rejected"
    /\ pc' = "input"
    /\ ev' = [op |-> "prompt"]
    /\ UNCHANGED <<variant, board, turn, result>>

\* playGame of Parts A and B: the player types row, col
HumanEntry(row, col) ==
    /\ pc = "input"
    /\ variant \in {"A", "B"}
    /\ IF validateEntry(board, row, col)
       THEN /\ board' = [board EXCEPT ![row][col] = turn]
            /\ pc' = "placed"
            /\ ev' = [op |-> "entry", row |-> row, col |-> col, ok |-> TRUE, mark |-> turn]
       ELSE /\ pc' = "rejected"
            /\ ev' = [op |-> "entry", row |-> row, col |-> col, ok |-> FALSE, mark |-> turn]
            /\ UNCHANGED board
    /\ UNCHANGED <<variant, turn, result>>

\* human_move of Part C: the player types row, col; X is written
human_move(row, col) ==
    /\ pc = "input"
    /\ variant = "C"
    /\ IF validateEntry(board, row, col)
       THEN /\ board' = [board EXCEPT ![row][col] = "X"]
            /\ pc' = "placed"
            /\ ev' = [op |-> "entry", row |-> row, col |-> col, ok |-> TRUE, mark |-> "X"]
       ELSE /\ pc' = "rejected"
            /\ ev' = [op |-> "entry", row |-> row, col |-> col, ok |-> FALSE, mark |-> "X"]
            /\ UNCHANGED board
    /\ UNCHANGED <<variant, turn, result>>

\* get_move_from_user of Part C at the end of input: human_move returns False
\* and playGame returns
human_move_eof ==
    /\ pc = "input"
    /\ variant = "C"
    /\ pc' = "done"
    /\ ev' = [op |-> "eof"]
    /\ UNCHANGED <<variant, board, turn, result>>

\* a Part A playGame that calls switchPlayer before checkEnd
CheckEndA_switch_first ==
    /\ pc = "placed"
    /\ variant = "A"
    /\ turn' = switchPlayer(turn)
    /\ LET end == checkEnd(board, switchPlayer(turn))
       IN IF end # "none"
          THEN /\ result' = end
               /\ pc' = "done"
          ELSE /\ pc' = "input"
               /\ UNCHANGED result
    /\ UNCHANGED <<variant, board, ev>>

\* playGame of Part A after a move: checkEnd, and if the game goes on,
\* switchPlayer
CheckEndA ==
    /\ pc = "placed"
    /\ variant = "A"
    /\ LET end == checkEnd(board, turn)
       IN IF end # "none"
          THEN /\ result' = end
               /\ pc' = "done"
               /\ UNCHANGED turn
          ELSE /\ turn' = switchPlayer(turn)
               /\ pc' = "input"
               /\ UNCHANGED result
    /\ UNCHANGED <<variant, board, ev>>

\* a Part B playGame without self.turn = 'O' before the computer's move
HumanCheckEndB_keeps_turn ==
    /\ pc = "placed"
    /\ variant = "B"
    /\ LET end == checkEnd(board, "X")
       IN IF end # "none"
          THEN /\ result' = end
               /\ turn' = "X"
               /\ pc' = "done"
          ELSE /\ turn' = "X"
               /\ pc' = "computer"
               /\ UNCHANGED result
    /\ UNCHANGED <<variant, board, ev>>

\* a Part B playGame that lets the computer answer a move that ended the game
HumanCheckEndB_no_break ==
    /\ pc = "placed"
    /\ variant = "B"
    /\ result' = checkEnd(board, "X")
    /\ turn' = "O"
    /\ pc' = "computer"
    /\ UNCHANGED <<variant, board, ev>>

\* playGame of Part B after the human move: turn = 'X', checkEnd, and if the
\* game goes on, turn = 'O'
HumanCheckEndB ==
    /\ pc = "placed"
    /\ variant = "B"
    /\ LET end == checkEnd(board, "X")
       IN IF end # "none"
          THEN /\ result' = end
               /\ turn' = "X"
               /\ pc' = "done"
          ELSE /\ turn' = "O"
               /\ pc' = "computer"
               /\ UNCHANGED result
    /\ UNCHANGED <<variant, board, ev>>

\* playGame of Part B: self.computer_move()
ComputerMoveB ==
    /\ pc = "computer"
    /\ variant = "B"
    /\ \E cm \in {computer_move(board)} :
          /\ board' = cm.board
          /\ ev' = [op |-> "computer_move", before |-> board, move |-> cm.best_move]
    /\ pc' = "answered"
    /\ UNCHANGED <<variant, turn, result>>

\* playGame of Part B after the computer's move: checkEnd, and if the game
\* goes on, turn = 'X'
ComputerCheckEndB ==
    /\ pc = "answered"
    /\ variant = "B"
    /\ LET end == checkEnd(board, turn)
       IN IF end # "none"
          THEN /\ result' = end
               /\ pc' = "done"
               /\ UNCHANGED turn
          ELSE /\ turn' = "X"
               /\ pc' = "input"
               /\ UNCHANGED result
    /\ UNCHANGED <<variant, board, ev>>

\* playGame of Part C after human_move: checkEnd
HumanCheckEndC ==
    /\ pc = "placed"
    /\ variant = "C"
    /\ LET end == checkEnd_C(board)
       IN IF end # "none"
          THEN /\ result' = end
               /\ pc' = "done"
          ELSE /\ pc' = "computer"
               /\ UNCHANGED result
    /\ UNCHANGED <<variant, board, turn, ev>>

\* playGame of Part C: self.model_move()
ModelMoveC ==
    /\ pc = "computer"
    /\ variant = "C"
    /\ \E ranked \in Rankings :
         \E choice \in (IF model_move_ranked(board, ranked, 1) = NoMove
                        THEN RandomChoices(board) ELSE {NoMove}) :
           \E mm \in {model_move(board, ranked, choice)} :
              /\ board' = mm.board
              /\ ev' = [op |-> "model_move", before |-> board, move |-> mm.move,
                        fallback |-> mm.fallback]
    /\ pc' = "answered"
    /\ UNCHANGED <<variant, turn, result>>

\* playGame of Part C after model_move: checkEnd
ModelCheckEndC ==
    /\ pc = "answered"
    /\ variant = "C"
    /\ LET end == checkEnd_C(board)
       IN IF end # "none"
          THEN /\ result' = end
               /\ pc' = "done"
          ELSE /\ pc' = "input"
               /\ UNCHANGED result
    /\ UNCHANGED <<variant, board, turn, ev>>

\* main: the answer to "Another game?" starts with y: a new Game, then playGame
main_again ==
    /\ pc = "done"
    /\ board' = Board
    /\ turn' = "X"
    /\ result' = "none"
    /\ pc' = "main"
    /\ ev' = [op |-> "init"]
    /\ UNCHANGED variant

\* main: any other answer ends the program
main_exit ==
    /\ pc = "done"
    /\ pc' = "exit"
    /\ UNCHANGED <<variant, board, turn, result, ev>>

Next ==
    \/ playGame_start
    \/ MalformedEntry
    \/ Reprompt
    \/ \E row \in 0..MaxCoord, col \in 0..MaxCoord : HumanEntry(row, col)
    \/ \E row \in 0..MaxCoord, col \in 0..MaxCoord : human_move(row, col)
    \/ human_move_eof
    \/ CheckEndA
    \/ HumanCheckEndB
    \/ ComputerMoveB
    \/ ComputerCheckEndB
    \/ HumanCheckEndC
    \/ ModelMoveC
    \/ ModelCheckEndC
    \/ main_again
    \/ main_exit

Spec == Init /\ [][Next]_vars

(***************************************************************************)
(* Single calls: a Game object holding any board, one method called on it  *)
(***************************************************************************)
\* the boards minimax and computer_move are called on directly
Empties(b) == Count(b, " ")

\* Part C never writes turn: it is 'X' throughout
InitFn ==
    /\ variant \in {"A", "B", "C"}
    /\ board \in AllBoards
    /\ turn \in (IF variant = "C" THEN {"X"} ELSE Player)
    /\ pc = "call"
    /\ result = "none"
    /\ ev = [op |-> "init"]

\* self.checkWin() of Parts A and B
CallCheckWin ==
    /\ pc = "call"
    /\ variant \in {"A", "B"}
    /\ pc' = "returned"
    /\ ev' = [op |-> "checkWin", ret |-> checkWin(board, turn)]
    /\ UNCHANGED <<variant, board, turn, result>>

\* self.checkWin_for_turn(t) of Part C
CallCheckWinForTurn(t) ==
    /\ pc = "call"
    /\ variant = "C"
    /\ pc' = "returned"
    /\ ev' = [op |-> "checkWin_for_turn", arg |-> t, ret |-> checkWin_for_turn(board, t)]
    /\ UNCHANGED <<variant, board, turn, result>>

\* self.check_winner_static(self.board.c) of Part B
CallCheckWinnerStatic ==
    /\ pc = "call"
    /\ variant = "B"
    /\ turn = "O"
    /\ pc' = "returned"
    /\ ev' = [op |-> "check_winner_static", ret |-> check_winner_static(board)]
    /\ UNCHANGED <<variant, board, turn, result>>

\* self.minimax(self.board.c, is_maximizing) of Part B; the list is the game
\* board itself, as in computer_move
CallMinimax(is_maximizing) ==
    /\ pc = "call"
    /\ variant = "B"
    /\ turn = "O"
    /\ Empties(board) <= MaxEmpty
    /\ pc' = "returned"
    /\ \E mm \in {minimax(board, is_maximizing)} :
          /\ board' = mm.board
          /\ ev' = [op |-> "minimax", before |-> board, arg |-> is_maximizing,
                    ret |-> mm.score, depth |-> mm.depth]
    /\ UNCHANGED <<variant, turn, result>>

\* self.computer_move() of Part B, called as playGame calls it, with turn 'O'
CallComputerMove ==
    /\ pc = "call"
    /\ variant = "B"
    /\ turn = "O"
    /\ Empties(board) <= MaxEmpty \/ board = Board
    /\ pc' = "returned"
    /\ \E cm \in {computer_move(board)} :
          /\ board' = cm.board
          /\ ev' = [op |-> "computer_move", before |-> board, move |-> cm.best_move]
    /\ UNCHANGED <<variant, turn, result>>

\* playGame without its first statement, self.board = Board()
CallPlayGame_keeps_board ==
    /\ pc = "call"
    /\ pc' = "returned"
    /\ turn' = "X"
    /\ ev' = [op |-> "playGame", before |-> board, turn_before |-> turn]
    /\ UNCHANGED <<variant, board, result>>

\* the first statements of self.playGame(), up to the first prompt, on a Game
\* whose board and turn are whatever an earlier session left
CallPlayGame ==
    /\ pc = "call"
    /\ pc' = "returned"
    /\ board' = Board
    /\ turn' = "X"
    /\ ev' = [op |-> "playGame", before |-> board, turn_before |-> turn]
    /\ UNCHANGED <<variant, result>>

\* the boards model_move is called on directly carry at most MaxMarks marks
MaxMarks == 2

\* self.model_move() of Part C, with any ranking of the predictor and, when
\* the ranking names no Empty cell, any cell random.choice can return
CallModelMove ==
    /\ pc = "call"
    /\ variant = "C"
    /\ 9 - Empties(board) <= MaxMarks
    /\ pc' = "returned"
    /\ \E ranked \in Rankings :
         \E choice \in (IF model_move_ranked(board, ranked, 1) = NoMove
                        THEN RandomChoices(board) ELSE {NoMove}) :
           \E mm \in {model_move(board, ranked, choice)} :
              /\ board' = mm.board
              /\ ev' = [op |-> "model_move", before |-> board, ranked |-> ranked,
                        move |-> mm.move, fallback |-> mm.fallback]
    /\ UNCHANGED <<variant, turn, result>>

\* self.board_to_model_features() of Part C
CallBoardToModelFeatures ==
    /\ pc = "call"
    /\ variant = "C"
    /\ pc' = "returned"
    /\ ev' = [op |-> "board_to_model_features", ret |-> board_to_model_features(board)]
    /\ UNCHANGED <<variant, board, turn, result>>

NextFn ==
    \/ CallPlayGame
    \/ CallBoardToModelFeatures
    \/ CallModelMove
    \/ CallCheckWin
    \/ \E t \in Player : CallCheckWinForTurn(t)
    \/ CallCheckWinnerStatic
    \/ \E is_maximizing \in BOOLEAN : CallMinimax(is_maximizing)
    \/ CallComputerMove

SpecFn == InitFn /\ [][NextFn]_vars

(***************************************************************************)
(* The reference the properties are stated against: the eight lines        *)
(***************************************************************************)
WinLines ==
    {{<<r, 0>>, <<r, 1>>, <<r, 2>>} : r \in 0..2}
        \cup {{<<0, c>>, <<1, c>>, <<2, c>>} : c \in 0..2}
        \cup {{<<0, 0>>, <<1, 1>>, <<2, 2>>}, {<<0, 2>>, <<1, 1>>, <<2, 0>>}}

\* player p holds all three cells of some line of b
HasLine(b, p) == \E l \in WinLines : \A cell \in l : b[cell[1]][cell[2]] = p

\* b with mark m written on cell k of the row-major order
Place(b, k, m) == [b EXCEPT ![RowOf(k)][ColOf(k)] = m]

EmptyCells(b) == {k \in 0..8 : b[RowOf(k)][ColOf(k)] = " "}

\* the score of cell k on board b: minimax of b with O on k, X to move
Score(b, k) == minimax(Place(b, k, "O"), FALSE).score

\* the scores of the Empty cells of b, as a set of one function
Scores(b) == {[k \in EmptyCells(b) |-> Score(b, k)]}

\* the row-major index of a move <<r, c>>
IndexOf(move) == 3 * move[1] + move[2]

(***************************************************************************)
(* C1 (Spec).  A finished Part B game is never won by X: when playGame of  *)
(* Part B has ended, checkEnd has announced a draw or O as the winner, and *)
(* X holds no complete line.                                               *)
(***************************************************************************)
C1_ComputerNeverLoses ==
    (variant = "B" /\ pc \in {"done", "exit"}) =>
        (result \in {"draw", "O"} /\ ~HasLine(board, "X"))

C1_Witness == variant = "B" /\ pc = "done" /\ result = "O"

(***************************************************************************)
(* C2 (SpecFn).  The positions of the claim: no complete line, one X more  *)
(* than O, and some Empty cell that completes a line of O.                 *)
(***************************************************************************)
WinningCells(b) == {k \in EmptyCells(b) : HasLine(Place(b, k, "O"), "O")}

C2_Position(b) ==
    /\ ~HasLine(b, "X")
    /\ ~HasLine(b, "O")
    /\ Count(b, "X") = Count(b, "O") + 1
    /\ WinningCells(b) # {}

\* C2 as claimed: on such a position computer_move writes O on a cell that
\* completes a line of O and the game ends with O's win on that move.
C2_AsClaimed ==
    (ev.op = "computer_move" /\ C2_Position(ev.before)) =>
        /\ ev.move # NoMove
        /\ IndexOf(ev.move) \in WinningCells(ev.before)
        /\ checkEnd(board, "O") = "O"

\* C2 as amended: on such a position computer_move writes O on the first
\* Empty cell, in row-major order, whose score is +1; the game ends with O's
\* win on that move exactly when that cell completes a line of O, which is
\* the case exactly when no Empty cell before the first line-completing cell
\* scores +1.
C2_FirstForcedWin ==
    (ev.op = "computer_move" /\ C2_Position(ev.before)) =>
        \A sc \in Scores(ev.before) :
        LET b == ev.before
            firstWin == CHOOSE k \in WinningCells(b) : \A j \in WinningCells(b) : k <= j
        IN /\ ev.move # NoMove
           /\ IndexOf(ev.move) \in EmptyCells(b)
           /\ sc[IndexOf(ev.move)] = 1
           /\ \A j \in EmptyCells(b) : j < IndexOf(ev.move) => sc[j] < 1
           /\ board = Place(b, IndexOf(ev.move), "O")
           /\ (checkEnd(board, "O") = "O") <=> (IndexOf(ev.move) \in WinningCells(b))
           /\ (IndexOf(ev.move) \in WinningCells(b)) <=>
                  (\A j \in EmptyCells(b) : j < firstWin => sc[j] < 1)

\* a position of the claim on which O is written on a cell that completes no
\* line, an earlier cell that forces the win
C2_Witness ==
    /\ ev.op = "computer_move"
    /\ C2_Position(ev.before)
    /\ ev.move # NoMove
    /\ IndexOf(ev.move) \notin WinningCells(ev.before)
    /\ checkEnd(board, "O") = "none"

(***************************************************************************)
(* C3 (Spec).  A typed move whose row or column is outside 0..2 or whose   *)
(* cell is not Empty is rejected: the step leaves board and turn as they   *)
(* were, and the next step prompts the same player again.                  *)
(***************************************************************************)
C3_RejectedEntryChangesNothing ==
    [][ /\ (pc = "input" /\ ev'.op = "entry") =>
              LET bad == \/ ~(ev'.row \in 0..2 /\ ev'.col \in 0..2)
                         \/ board[ev'.row][ev'.col] # " "
              IN bad => /\ ~ev'.ok
                        /\ board' = board
                        /\ turn' = turn
                        /\ pc' = "rejected"
        /\ (pc = "rejected") => (pc' = "input" /\ board' = board /\ turn' = turn)
      ]_vars

\* an entry on a cell the opponent holds has been rejected, in range
C3_Witness ==
    /\ pc = "rejected"
    /\ ev.op = "entry"
    /\ ~ev.ok
    /\ ev.row \in 0..2 /\ ev.col \in 0..2
    /\ board[ev.row][ev.col] = "O"

(***************************************************************************)
(* C4 (Spec).  Part A, N marks placed and the game still on: X is to move  *)
(* if N is even and O if N is odd; the N-th move placed X if N is odd and  *)
(* O if N is even.                                                         *)
(***************************************************************************)
C4_TurnAlternation ==
    variant = "A" =>
        LET N == 9 - Empties(board)
        IN /\ pc \in {"input", "rejected"} =>
                 turn = (IF N % 2 = 0 THEN "X" ELSE "O")
           /\ pc = "placed" =>
                 /\ ev.op = "entry" /\ ev.ok
                 /\ ev.mark = (IF N % 2 = 1 THEN "X" ELSE "O")
                 /\ board[ev.row][ev.col] = ev.mark

C4_Witness == variant = "A" /\ pc = "input" /\ Empties(board) = 4 /\ turn = "O"

(***************************************************************************)
(* C5 (SpecFn).  minimax returns with the list it was given unchanged, and *)
(* computer_move, when it chooses a move, changes the game board in that   *)
(* one cell only, from Empty to O.                                         *)
(***************************************************************************)
C5_MinimaxLeavesBoard ==
    /\ ev.op = "minimax" => board = ev.before
    /\ (ev.op = "computer_move" /\ ev.move # NoMove) =>
          /\ ev.before[ev.move[1]][ev.move[2]] = " "
          /\ board = [ev.before EXCEPT ![ev.move[1]][ev.move[2]] = "O"]

\* minimax has returned from a search at least three moves deep
C5_Witness ==
    /\ ev.op = "minimax"
    /\ ev.arg = TRUE
    /\ Empties(ev.before) >= 3
    /\ ~HasLine(ev.before, "X") /\ ~HasLine(ev.before, "O")

(***************************************************************************)
(* C6 (SpecFn).  On a board with an Empty cell computer_move writes O on   *)
(* the first cell, in row-major order, among the Empty cells of maximal    *)
(* score.                                                                  *)
(***************************************************************************)
C6_FirstBestCell ==
    (ev.op = "computer_move" /\ EmptyCells(ev.before) # {}) =>
        \A sc \in Scores(ev.before) :
        LET b == ev.before
            best == {k \in EmptyCells(b) : \A j \in EmptyCells(b) : sc[j] <= sc[k]}
            first == CHOOSE k \in best : \A j \in best : k <= j
        IN /\ ev.move = <<RowOf(first), ColOf(first)>>
           /\ board[RowOf(first)][ColOf(first)] = "O"

\* two Empty cells of equal score, and O on the first of them
C6_Witness ==
    /\ ev.op = "computer_move"
    /\ Empties(ev.before) = 2
    /\ \E sc \in Scores(ev.before) : \E j, k \in EmptyCells(ev.before) :
          /\ j < k
          /\ sc[j] = sc[k]
          /\ ev.move = <<RowOf(j), ColOf(j)>>

(***************************************************************************)
(* C7 (SpecFn).  computer_move on the empty board writes O at row 0,       *)
(* column 0.                                                               *)
(***************************************************************************)
C7_EmptyBoardCorner ==
    (ev.op = "computer_move" /\ ev.before = Board) =>
        (ev.move = <<0, 0>> /\ board = [Board EXCEPT ![0][0] = "O"])

C7_Witness == ev.op = "computer_move" /\ ev.before = Board /\ board[0][0] = "O"

(***************************************************************************)
(* C8 (SpecFn).  The win predicates agree with the eight lines: checkWin   *)
(* and checkWin_for_turn return True iff the player holds a line;          *)
(* check_winner_static returns None iff nobody holds a line, and otherwise *)
(* a player who holds one.                                                 *)
(***************************************************************************)
C8_WinPredicates ==
    /\ ev.op = "checkWin" => (ev.ret <=> HasLine(board, turn))
    /\ ev.op = "checkWin_for_turn" => (ev.ret <=> HasLine(board, ev.arg))
    /\ ev.op = "check_winner_static" =>
          /\ (ev.ret = None) <=> (~HasLine(board, "X") /\ ~HasLine(board, "O"))
          /\ (ev.ret # None) => (ev.ret \in Player /\ HasLine(board, ev.ret))

\* checkWin has found the second diagonal, the only line held
C8_Witness ==
    /\ ev.op = "checkWin"
    /\ ev.ret
    /\ \A l \in WinLines :
          (\A cell \in l : board[cell[1]][cell[2]] = turn)
              <=> (l = {<<0, 2>>, <<1, 1>>, <<2, 0>>})

(***************************************************************************)
(* C9 (Spec).  A session has ended as a draw exactly when the board is     *)
(* full and nobody holds a line; a move that fills the last cell and       *)
(* completes a line ends it as a win of the mover.                         *)
(***************************************************************************)
C9_DrawIffFullAndNoLine ==
    pc \in {"done", "exit"} =>
        /\ (result = "draw") <=>
              (Empties(board) = 0 /\ ~HasLine(board, "X") /\ ~HasLine(board, "O"))
        /\ (ev.op = "entry" /\ Empties(board) = 0 /\ HasLine(board, ev.mark)) =>
              result = ev.mark

\* the ninth mark completed a line
C9_Witness ==
    /\ pc = "done"
    /\ Empties(board) = 0
    /\ ev.op = "entry"
    /\ HasLine(board, ev.mark)
    /\ result = "X"

(***************************************************************************)
(* C10 (Spec).  The step on which checkEnd announces the outcome changes   *)
(* no cell, and from then on the board of the session stays as it is: the  *)
(* only step that follows is main's, which ends the program or builds a    *)
(* new Game.                                                               *)
(***************************************************************************)
C10_NoMoveAfterEnd ==
    [][ /\ (result = "none" /\ result' # "none") => (board' = board /\ pc' = "done")
        /\ (result # "none") =>
              \/ (board' = board /\ result' = result /\ pc' = "exit")
              \/ (pc = "done" /\ pc' = "main" /\ result' = "none")
      ]_vars

\* a Part B session that the human's move ended, the computer not answering
C10_Witness ==
    /\ variant = "B"
    /\ pc = "exit"
    /\ result = "draw"
    /\ ev.op = "entry"
    /\ Empties(board) = 0

(***************************************************************************)
(* The sessions under fairness.  The program is sequential: at a position  *)
(* where the next step is the program's own (every position but the        *)
(* prompts "main" and "input" and the ends "done" and "exit") it takes     *)
(* that step (ProgramStep, weak fairness).  A player who is asked again    *)
(* and again eventually types a move that is accepted (AcceptedEntry,      *)
(* strong fairness: a rejected entry disables it until the next prompt).   *)
(***************************************************************************)
Positions ==
    {"main", "input", "rejected", "placed", "computer", "answered", "done", "exit"}

ProgramStep ==
    /\ pc \in {"rejected", "placed", "computer", "answered"}
    /\ pc' \in Positions \ {pc}

AcceptedEntry == pc = "input" /\ pc' = "placed"

SpecLive == Init /\ [][Next]_vars /\ WF_pc(ProgramStep) /\ SF_pc(AcceptedEntry)

\* the mark of the player who is asked for a move in the current state
MoverMark ==
    IF pc = "computer" THEN "O"
    ELSE IF variant = "A" /\ (9 - Empties(board)) % 2 = 1 THEN "O"
    ELSE "X"

\* the cell the step writes, as the step records it
PlacedCell == IF ev'.op = "entry" THEN <<ev'.row, ev'.col>> ELSE ev'.move

\* the step places mark m: the board changes in one cell, which holds m afterwards
MarkPlaced(m) ==
    /\ board' # board
    /\ board' = [board EXCEPT ![PlacedCell[1]][PlacedCell[2]] = m]

\* the cell the step writes is Empty before
EmptyBefore == board[PlacedCell[1]][PlacedCell[2]] = " "

(***************************************************************************)
(* C11 (SpecLive).  A step that changes the board of a session changes     *)
(* exactly one cell, from Empty to the mark of the player who moves, so    *)
(* no mark is overwritten or cleared and a session places at most 9 marks  *)
(* (the only other change of the board is main's new Game after a session  *)
(* has ended); and a session that asks for a move eventually announces a   *)
(* win or a draw, unless the input ends.                                   *)
(***************************************************************************)
C11_MovesFillTheBoard ==
    /\ [][ board' # board =>
              \/ (pc = "done" /\ pc' = "main" /\ board' = Board)
              \/ /\ pc \in {"input", "computer"}
                 /\ MarkPlaced(MoverMark)
                 /\ EmptyBefore
         ]_vars
    /\ [](pc = "input" => <>(result # "none" \/ ev.op = "eof"))

\* the ninth mark of a session has been placed and the draw announced
C11_Witness ==
    /\ pc = "done"
    /\ result = "draw"
    /\ Empties(board) = 0
    /\ Count(board, "X") = 5 /\ Count(board, "O") = 4

(***************************************************************************)
(* C12 (SpecFn).  playGame begins with all nine cells Empty and X to move, *)
(* whatever the board and the turn of the Game were when it was called.    *)
(***************************************************************************)
C12_PlayGameStartsFresh ==
    ev.op = "playGame" => (board = Board /\ turn = "X" /\ Empties(board) = 9)

\* playGame was called on a full board that O had won, O's turn still set
C12_Witness ==
    /\ ev.op = "playGame"
    /\ HasLine(ev.before, "O")
    /\ Empties(ev.before) = 0
    /\ ev.turn_before = "O"
    /\ board = Board

(***************************************************************************)
(* C13 (SpecFn).  On a board with an Empty cell model_move writes exactly  *)
(* one O, on an Empty cell and nowhere else: on the cell of the first      *)
(* index of the ranking whose cell is Empty, and on some Empty cell when   *)
(* the ranking names none.                                                 *)
(***************************************************************************)
C13_ModelMoveFirstRankedEmpty ==
    (ev.op = "model_move" /\ EmptyCells(ev.before) # {}) =>
        LET b == ev.before
            hits == {i \in 1..Len(ev.ranked) : ev.ranked[i] \in EmptyCells(b)}
        IN /\ ev.move # NoMove
           /\ IndexOf(ev.move) \in EmptyCells(b)
           /\ board = Place(b, IndexOf(ev.move), "O")
           /\ hits # {} =>
                 /\ ~ev.fallback
                 /\ \E i \in hits : /\ \A j \in hits : i <= j
                                     /\ IndexOf(ev.move) = ev.ranked[i]
           /\ hits = {} => ev.fallback

\* the first ranked cell is occupied and O went to the second
C13_Witness ==
    /\ ev.op = "model_move"
    /\ Len(ev.ranked) = 2
    /\ ev.ranked[1] \notin EmptyCells(ev.before)
    /\ ev.ranked[2] \in EmptyCells(ev.before)
    /\ ev.move = <<RowOf(ev.ranked[2]), ColOf(ev.ranked[2])>>
    /\ board[ev.move[1]][ev.move[2]] = "O"

(***************************************************************************)
(* C14 (SpecFn).  computer_move on a board with no Empty cell places no    *)
(* mark: all nine cells are as they were and it reports that there is no   *)
(* move (best_move stays None, "Computer has no moves!"); it reports so on *)
(* no other board.                                                         *)
(***************************************************************************)
C14_FullBoardNoMove ==
    ev.op = "computer_move" =>
        /\ Empties(ev.before) = 0 => (board = ev.before /\ ev.move = NoMove)
        /\ ev.move = NoMove => Empties(ev.before) = 0

\* computer_move has returned from a full board on which nobody holds a line
C14_Witness ==
    /\ ev.op = "computer_move"
    /\ Empties(ev.before) = 0
    /\ ~HasLine(ev.before, "X") /\ ~HasLine(ev.before, "O")
    /\ ev.move = NoMove
    /\ board = ev.before

(***************************************************************************)
(* C15 (SpecFn).  board_to_model_features returns a vector of length 9     *)
(* that holds, at row-major index 3r + c, +1 for X, -1 for O and 0 for an  *)
(* Empty cell; decoding the vector with the inverse mapping gives the      *)
(* board back, so two boards never share a vector.                         *)
(***************************************************************************)
Decode(v) ==
    [r \in 0..2 |-> [c \in 0..2 |->
        IF v[3 * r + c + 1] = 1 THEN "X"
        ELSE IF v[3 * r + c + 1] = -1 THEN "O"
        ELSE " "]]

C15_FeaturesRoundTrip ==
    ev.op = "board_to_model_features" =>
        /\ Len(ev.ret) = 9
        /\ \A r, c \in 0..2 :
              ev.ret[3 * r + c + 1] =
                  (IF board[r][c] = "X" THEN 1 ELSE IF board[r][c] = "O" THEN -1 ELSE 0)
        /\ Decode(ev.ret) = board

\* a board with all three kinds of cell, X at (0, 1), O at (1, 0)
C15_Witness ==
    /\ ev.op = "board_to_model_features"
    /\ board[0][1] = "X" /\ board[1][0] = "O" /\ board[2][2] = " "
    /\ ev.ret[2] = 1 /\ ev.ret[4] = -1 /\ ev.ret[9] = 0

(***************************************************************************)
(* C16 (Spec).  The mark a step places and the value of turn when it is    *)
(* placed.                                                                 *)
(***************************************************************************)
\* C16 as claimed: in every variant the mark a step places is the value of
\* turn at that moment.
C16_AsClaimed ==
    [][ (pc \in {"input", "computer"} /\ board' # board) => MarkPlaced(turn) ]_vars

\* C16 as amended: in Parts A and B the mark a step places is the value of
\* turn at that moment, for the human's and for the computer's move; in Part
\* C turn is 'X' at every placement, the human's mark is X and the mark
\* model_move places is O.
C16_MarkIsTurnInAB ==
    [][ (pc \in {"input", "computer"} /\ board' # board) =>
            IF variant \in {"A", "B"} THEN MarkPlaced(turn)
            ELSE /\ turn = "X" /\ turn' = "X"
                 /\ MarkPlaced(IF pc = "computer" THEN "O" ELSE "X")
      ]_vars

\* model_move has written O while turn is X
C16_Witness ==
    /\ variant = "C"
    /\ pc = "answered"
    /\ ev.op = "model_move"
    /\ ev.move # NoMove
    /\ board[ev.move[1]][ev.move[2]] = "O"
    /\ ev.before[ev.move[1]][ev.move[2]] = " "
    /\ turn = "X"

(***************************************************************************)
(* C17 (SpecFn).  On a board on which at most one player holds a line,     *)
(* minimax returns +1 if O holds a line, -1 if X holds one, 0 if the board *)
(* is full, and otherwise the greatest (is_maximizing, O moves) or the     *)
(* least (X moves) of the values of the boards that placing the mover's    *)
(* mark on an Empty cell gives; the result is -1, 0 or 1, never a          *)
(* sentinel.  Holding on every board of the bound for both values of       *)
(* is_maximizing, the equation makes minimax the game value.               *)
(***************************************************************************)
ChildValues(b, is_maximizing) ==
    {{minimax(Place(b, k, IF is_maximizing THEN "O" ELSE "X"), ~is_maximizing).score :
          k \in EmptyCells(b)}}

C17_MinimaxIsGameValue ==
    (ev.op = "minimax" /\ ~(HasLine(ev.before, "X") /\ HasLine(ev.before, "O"))) =>
        /\ ev.ret \in {-1, 0, 1}
        /\ IF HasLine(ev.before, "O") THEN ev.ret = 1
           ELSE IF HasLine(ev.before, "X") THEN ev.ret = -1
           ELSE IF EmptyCells(ev.before) = {} THEN ev.ret = 0
           ELSE \A values \in ChildValues(ev.before, ev.arg) :
                   /\ ev.ret \in values
                   /\ \A v \in values : IF ev.arg THEN v <= ev.ret ELSE ev.ret <= v

\* X to move with four Empty cells, nobody holds a line, and X cannot avoid
\* the draw
C17_Witness ==
    /\ ev.op = "minimax"
    /\ ~ev.arg
    /\ Empties(ev.before) = 4
    /\ ~HasLine(ev.before, "X") /\ ~HasLine(ev.before, "O")
    /\ ev.ret = 0

(***************************************************************************)
(* C18 (Spec).  In a Part A or Part B session no board has a line of X and *)
(* a line of O; when checkEnd is about to be evaluated, turn is the mark   *)
(* just placed, the other player holds no line, and checkEnd, which tests  *)
(* the win of turn only, announces what testing X, then O, then the full   *)
(* board announces.                                                        *)
(***************************************************************************)
Outcome(b) ==
    IF HasLine(b, "X") THEN "X"
    ELSE IF HasLine(b, "O") THEN "O"
    ELSE IF EmptyCells(b) = {} THEN "draw"
    ELSE "none"

C18_TurnWinTestSuffices ==
    variant \in {"A", "B"} =>
        /\ ~(HasLine(board, "X") /\ HasLine(board, "O"))
        /\ pc \in {"placed", "answered"} =>
              LET placed == IF pc = "placed" THEN ev.mark ELSE "O"
              IN /\ turn = placed
                 /\ ~HasLine(board, IF placed = "X" THEN "O" ELSE "X")
                 /\ checkEnd(board, turn) = Outcome(board)

\* O has just completed a line in Part A and checkEnd is about to run
C18_Witness ==
    /\ variant = "A"
    /\ pc = "placed"
    /\ ev.mark = "O"
    /\ turn = "O"
    /\ HasLine(board, "O")
    /\ checkEnd(board, turn) = "O"

(***************************************************************************)
(* C19 (Spec).  In all three programs the number of X on the board minus   *)
(* the number of O is 0 or 1: 0 whenever X is asked for a move, 1 whenever *)
(* O is to move (the second player of Part A, computer_move, model_move);  *)
(* the first mark of a session is an X.                                    *)
(***************************************************************************)
C19_XLeadsByAtMostOne ==
    LET d == Count(board, "X") - Count(board, "O")
        asked == pc \in {"input", "rejected"}
    IN /\ d \in {0, 1}
       /\ (asked /\ (variant = "A" => turn = "X")) => d = 0
       /\ ((asked /\ variant = "A" /\ turn = "O") \/ pc = "computer") => d = 1
       /\ Empties(board) = 8 => Count(board, "X") = 1

\* model_move is about to answer the third X
C19_Witness ==
    /\ variant = "C"
    /\ pc = "computer"
    /\ Count(board, "X") = 3
    /\ Count(board, "O") = 2

(***************************************************************************)
(* C20 (SpecFn).  Every call of minimax returns, and the recursion below   *)
(* it is never deeper than the number of Empty cells of the board it was   *)
(* given, so never deeper than 9: each recursive call is made on a board   *)
(* with one more mark.  A call on a board that has a line or is full does  *)
(* not recurse; every other call does.                                     *)
(***************************************************************************)
C20_MinimaxDepthBounded ==
    ev.op = "minimax" =>
        /\ ev.depth <= Empties(ev.before)
        /\ ev.depth <= 9
        /\ (ev.depth = 0) <=>
               (HasLine(ev.before, "X") \/ HasLine(ev.before, "O") \/ Empties(ev.before) = 0)

\* a search that went as deep as the four Empty cells of its board allow
C20_Witness ==
    /\ ev.op = "minimax"
    /\ Empties(ev.before) = 4
    /\ ev.depth = 4
    /\ board = ev.before

(***************************************************************************)
(* C21 (Spec).  In a Part B or Part C session computer_move and model_move *)
(* are called only on a board with an Empty cell on which neither player   *)
(* holds a line, and they return having placed a mark: "Computer has no    *)
(* moves!" and the early return of model_move do not happen.               *)
(***************************************************************************)
C21_ComputerHasAMove ==
    variant \in {"B", "C"} =>
        /\ pc = "computer" =>
              /\ Empties(board) >= 1
              /\ ~HasLine(board, "X") /\ ~HasLine(board, "O")
        /\ pc = "answered" =>
              /\ ev.op \in {"computer_move", "model_move"}
              /\ ev.move # NoMove
              /\ Empties(ev.before) >= 1
              /\ ~HasLine(ev.before, "X") /\ ~HasLine(ev.before, "O")
              /\ board[ev.move[1]][ev.move[2]] = "O"

\* computer_move has placed its fourth O, one Empty cell is left
C21_Witness ==
    /\ variant = "B"
    /\ pc = "answered"
    /\ ev.op = "computer_move"
    /\ Empties(ev.before) = 2
    /\ ev.move # NoMove
    /\ Empties(board) = 1

====
